---- MODULE Spec2Model ----
(***************************************************************************)
(* A model of the three entry points of goodwe2influxdb:                   *)
(*   - telegraf_plugin_main._async_main : the generic execd plugin driver, *)
(*     run over an arbitrary asynchronous point source;                    *)
(*   - azrouter2influxdb.query_data     : the AZ-router program, with      *)
(*     unroll_json / build_point;                                          *)
(*   - goodwe2influxdb.get_runtime_data : the GoodWe inverter program.     *)
(* One behaviour of Spec is one run of one of the three programs.          *)
(* Strings that the code builds or inspects are sequences of characters.   *)
(***************************************************************************)
EXTENDS Integers, Sequences, FiniteSets, TLC

VARIABLES
  prog,        \* which program's main() runs: "plugin", "azrouter", "goodwe"
  stdoutTty,   \* os.isatty(sys.stdout.fileno())
  stderrTty,   \* os.isatty(sys.stderr.fileno())
  stdin,       \* non-empty results reader.readline() will still return before b''
  pc,          \* position of the main coroutine
  mode,        \* branch taken by the isatty test: "none", "interactive", "noninteractive"
  exitCode,    \* -1 while the process runs, then the process exit status
  srcState,    \* the point source: "live", "stopped" (it raised StopAsyncIteration
               \* / ended), "failed" (producing raised anything else)
  linesRead,   \* lines yielded by stdin_lines() so far
  eofSeen,     \* readline() has returned b''
  pulls,       \* pulls started on the point source (it.__anext__() / read of the device)
  pulled,      \* the items the source has yielded, in order
  points,      \* the batch handed to _emit_points
  emitIdx,     \* index of the next point of the batch to serialize
  stdout,      \* lines written to sys.stdout, in order
  flushed,     \* how many of them have been flushed to the pipe
  flushes,     \* explicit flushes performed
  stderr,      \* what was written to sys.stderr, in order
  workers,     \* threads currently running _emit_points
  srcInit,     \* the adapter's initialization work: "pending", "done", "failed"
  statusJson,  \* azrouter: the last decoded /api/v1/status response
  powerJson,   \* azrouter: the last decoded /api/v1/power response
  statusFetches, \* azrouter: GETs of /api/v1/status so far
  powerFetches,  \* azrouter: GETs of /api/v1/power so far
  ipArg,       \* goodwe: --ip_address, or "None" when not given
  ipAddress,   \* goodwe: the address in use after detection
  inverter,    \* goodwe: the connected inverter's attributes, NotConnected before
  tags,        \* goodwe: the tag dict, a sequence of [k, v]
  runtimeData, \* goodwe: the last result of inverter.read_runtime_data()
  reads,       \* goodwe: calls of inverter.read_runtime_data() so far
  connects,    \* goodwe: calls of goodwe.connect() so far
  discoveries, \* goodwe: calls of goodwe.search_inverters() so far
  fpc,         \* unroll_json / build_point harness: "input", "unrolled", "built"
  fPrefix,     \* the prefix unroll_json is called with
  fJson,       \* the structured value it is called with
  fResult,     \* what iterating unroll_json(fPrefix, fJson) produced
  fPoint       \* what build_point(name, tags, fJson) produced

dvars == <<prog, stdoutTty, stderrTty, stdin, pc, mode, exitCode, srcState,
           linesRead, eofSeen, pulls, pulled, points, emitIdx, stdout,
           flushed, flushes, stderr, workers, srcInit>>

azvars == <<statusJson, powerJson, statusFetches, powerFetches>>

gwvars == <<ipArg, ipAddress, inverter, tags, runtimeData, reads, connects,
            discoveries>>

fvars == <<fpc, fPrefix, fJson, fResult, fPoint>>

\* Bounds of the model.
MaxLines == 3
MaxBatch == 2
MaxWidth == 2      \* keys per mapping of the structured values
MaxEntries == 2    \* elements per sequence of the structured values

Programs == {"plugin", "azrouter", "goodwe"}

----------------------------------------------------------------------------
\* Structured values (decoded JSON).  A value is a record tagged by t:
\*   [t |-> "str", s |-> chars]   [t |-> "num", n |-> Int]
\*   [t |-> "bool", b |-> BOOLEAN]   [t |-> "null"]
\*   [t |-> "dict", kv |-> sequence of [k |-> chars, v |-> value]], keys distinct
\*   [t |-> "list", elems |-> sequence of values]
\*   [t |-> "other"]  an object of any other runtime type
JStr(s) == [t |-> "str", s |-> s]
JNum(n) == [t |-> "num", n |-> n]
JBool(b) == [t |-> "bool", b |-> b]
JNull == [t |-> "null"]
JDict(kv) == [t |-> "dict", kv |-> kv]
JList(elems) == [t |-> "list", elems |-> elems]
JOther == [t |-> "other"]
KV(k, v) == [k |-> k, v |-> v]

IsScalar(json) == json.t \in {"str", "num", "bool", "null"}

HasKey(d, k) == \E i \in 1..Len(d.kv) : d.kv[i].k = k
GetKey(d, k) == d.kv[CHOOSE i \in 1..Len(d.kv) : d.kv[i].k = k].v

K_id == <<"i", "d">>
K_value == <<"v", "a", "l", "u", "e">>
Sep == <<"_">>

\* str(): the decimal numeral of an int, the text of a str, True/False, None.
Digit(d) == <<"0", "1", "2", "3", "4", "5", "6", "7", "8", "9">>[d + 1]

RECURSIVE IntStr(_)
IntStr(n) ==
  IF n < 0 THEN <<"-">> \o IntStr(-n)
  ELSE IF n < 10 THEN <<Digit(n)>>
  ELSE IntStr(n \div 10) \o <<Digit(n % 10)>>

PyStr(json) ==
  CASE json.t = "str" -> json.s
    [] json.t = "num" -> IntStr(json.n)
    [] json.t = "bool" -> IF json.b THEN <<"T", "r", "u", "e">>
                                    ELSE <<"F", "a", "l", "s", "e">>
    [] json.t = "null" -> <<"N", "o", "n", "e">>

\* unroll_json is a generator: iterating it gives the pairs it yields, in
\* order, and then either ends (err = "none") or raises (err names the
\* exception); the pairs yielded before a raise have reached the caller.
Yielded(pairs) == [pairs |-> pairs, err |-> "none"]
Raised(pairs, ex) == [pairs |-> pairs, err |-> ex]

RECURSIVE unroll_json(_, _)
RECURSIVE UnrollDict(_, _, _)
RECURSIVE UnrollList(_, _, _)

\* for key, value in json.items(): for pair in unroll_json(prefix + key, value): yield pair
UnrollDict(prefix, kv, i) ==
  IF i > Len(kv) THEN Yielded(<<>>)
  ELSE LET r == unroll_json(prefix \o kv[i].k, kv[i].v)
       IN IF r.err # "none" THEN r
          ELSE LET rest == UnrollDict(prefix, kv, i + 1)
               IN [pairs |-> r.pairs \o rest.pairs, err |-> rest.err]

\* for entry in json: yield (prefix + str(entry['id']), str(entry['value']))
\* entry[...] of anything but a dict raises TypeError, which `except KeyError`
\* lets through; a missing key raises KeyError, re-raised as KeyError.
UnrollList(prefix, elems, i) ==
  IF i > Len(elems) THEN Yielded(<<>>)
  ELSE LET entry == elems[i]
       IN IF entry.t # "dict" THEN Raised(<<>>, "TypeError")
          ELSE IF ~HasKey(entry, K_id) \/ ~HasKey(entry, K_value)
            THEN Raised(<<>>, "KeyError")
          ELSE LET pair == [key |-> prefix \o PyStr(GetKey(entry, K_id)),
                            val |-> JStr(PyStr(GetKey(entry, K_value)))]
                   rest == UnrollList(prefix, elems, i + 1)
               IN [pairs |-> <<pair>> \o rest.pairs, err |-> rest.err]

\* Mutant of unroll_json: the separator is appended to an empty prefix too.
unroll_json_LeadingSep(prefix, json) ==
  IF IsScalar(json) THEN Yielded(<<[key |-> prefix, val |-> json]>>)
  ELSE LET p == prefix \o Sep
       IN IF json.t = "dict" THEN UnrollDict(p, json.kv, 1)
          ELSE IF json.t = "list" THEN UnrollList(p, json.elems, 1)
          ELSE Raised(<<>>, "ValueError")

\* Mutant of unroll_json: the keys of a nested mapping are not prefixed.
unroll_json_NoPrefix(prefix, json) ==
  IF IsScalar(json) THEN Yielded(<<[key |-> prefix, val |-> json]>>)
  ELSE LET p == IF prefix # <<>> THEN prefix \o Sep ELSE prefix
       IN IF json.t = "dict" THEN UnrollDict(<<>>, json.kv, 1)
          ELSE IF json.t = "list" THEN UnrollList(p, json.elems, 1)
          ELSE Raised(<<>>, "ValueError")

unroll_json(prefix, json) ==
  IF IsScalar(json) THEN Yielded(<<[key |-> prefix, val |-> json]>>)
  ELSE LET p == IF prefix # <<>> THEN prefix \o Sep ELSE prefix
       IN IF json.t = "dict" THEN UnrollDict(p, json.kv, 1)
          ELSE IF json.t = "list" THEN UnrollList(p, json.elems, 1)
          ELSE Raised(<<>>, "ValueError")

\* Point.field(key, value): the fields of a Point are a dict, so a second
\* field with a key already present replaces the value in place.
RECURSIVE SetFields(_, _, _)
SetFields(fields, pairs, i) ==
  IF i > Len(pairs) THEN fields
  ELSE LET p == pairs[i]
           at == {j \in 1..Len(fields) : fields[j].key = p.key}
       IN SetFields(IF at = {} THEN Append(fields, p)
                    ELSE [j \in 1..Len(fields) |->
                            IF j \in at THEN p ELSE fields[j]],
                    pairs, i + 1)

\* build_point: the Point, or the exception that left unroll_json.
build_point(measurement_name, tgs, json) ==
  LET r == unroll_json(<<>>, json)
  IN IF r.err # "none" THEN [ok |-> FALSE, err |-> r.err]
     ELSE [ok |-> TRUE,
           point |-> [measurement |-> measurement_name, tags |-> tgs,
                      fields |-> SetFields(<<>>, r.pairs, 1), ok |-> TRUE]]

----------------------------------------------------------------------------
\* Points of the generic source: opaque, identified by the pull that produced
\* them and their place in the batch; ok says whether to_line_protocol()
\* returns (FALSE: it raises, e.g. on a field of an unsupported type).
SrcPoint(k, j, ok) == [pull |-> k, idx |-> j, ok |-> ok]

\* What the k-th __anext__() of the source may yield: a single Point, or an
\* iterable of 0..MaxBatch Points.
SrcItems(k) ==
  { [single |-> TRUE, pts |-> <<SrcPoint(k, 1, ok)>>] : ok \in BOOLEAN }
  \cup
  UNION { { [single |-> FALSE,
             pts |-> [j \in 1..n |-> SrcPoint(k, j, oks[j])]] :
              oks \in [1..n -> BOOLEAN] } : n \in 0..MaxBatch }

\* Point.to_line_protocol(): the line of a point (an injective rendering of
\* it), defined when Serializable.
Serializable(point) == point.ok
to_line_protocol(point) == [line |-> point]

\* The process ends with status `code`; the interpreter flushes sys.stdout.
Exit(code, out) ==
  /\ pc' = "done"
  /\ exitCode' = code
  /\ stdout' = out
  /\ flushed' = Len(out)
  /\ workers' = 0

----------------------------------------------------------------------------
\* telegraf_plugin_main._async_main

\* Mutant of PluginStart: the test is made on sys.stdout.
PluginStart_Stdout ==
  /\ prog = "plugin" /\ pc = "start"
  /\ IF stdoutTty
       THEN mode' = "interactive" /\ pc' = "sample"
       ELSE mode' = "noninteractive" /\ pc' = "aiter"
  /\ UNCHANGED fvars
  /\ UNCHANGED azvars
  /\ UNCHANGED gwvars
  /\ UNCHANGED <<srcInit, prog, stdoutTty, stderrTty, stdin, exitCode, srcState,
                 linesRead, eofSeen, pulls, pulled, points, emitIdx, stdout,
                 flushed, flushes, stderr, workers>>

\* if os.isatty(sys.stderr.fileno()):
PluginStart ==
  /\ prog = "plugin" /\ pc = "start"
  /\ IF stderrTty
       THEN mode' = "interactive" /\ pc' = "sample"
       ELSE mode' = "noninteractive" /\ pc' = "aiter"
  /\ UNCHANGED fvars
  /\ UNCHANGED azvars
  /\ UNCHANGED gwvars
  /\ UNCHANGED <<srcInit, prog, stdoutTty, stderrTty, stdin, exitCode, srcState,
                 linesRead, eofSeen, pulls, pulled, points, emitIdx, stdout,
                 flushed, flushes, stderr, workers>>

\* Mutant of PluginSampleYield: the sample is printed without file=sys.stderr.
PluginSampleYield_Stdout ==
  /\ prog = "plugin" /\ pc = "sample" /\ srcState = "live"
  /\ \E item \in SrcItems(pulls + 1) :
       /\ pulls' = pulls + 1
       /\ pulled' = Append(pulled, item)
       /\ IF item.single /\ ~Serializable(item.pts[1])
            THEN /\ stderr' = Append(stderr, [kind |-> "traceback"])
                 /\ Exit(1, Append(stdout, [kind |-> "sample_header"]))
            ELSE /\ stderr' = stderr
                 /\ Exit(0, stdout \o <<[kind |-> "sample_header"],
                                        [kind |-> "sample", item |-> item]>>)
  /\ srcInit' = "done"
  /\ UNCHANGED fvars
  /\ UNCHANGED azvars
  /\ UNCHANGED gwvars
  /\ UNCHANGED <<prog, stdoutTty, stderrTty, stdin, mode, srcState,
                 linesRead, eofSeen, points, emitIdx, flushes>>

\* async for point in points_fn: the first pull yields an item; the header
\* and the item are printed to sys.stderr, then `return`.  print(point) of a
\* single Point renders it with to_line_protocol().
PluginSampleYield ==
  /\ prog = "plugin" /\ pc = "sample" /\ srcState = "live"
  /\ \E item \in SrcItems(pulls + 1) :
       /\ pulls' = pulls + 1
       /\ pulled' = Append(pulled, item)
       /\ IF item.single /\ ~Serializable(item.pts[1])
            THEN /\ stderr' = stderr \o <<[kind |-> "sample_header"],
                                          [kind |-> "traceback"]>>
                 /\ Exit(1, stdout)
            ELSE /\ stderr' = stderr \o <<[kind |-> "sample_header"],
                                          [kind |-> "sample", item |-> item]>>
                 /\ Exit(0, stdout)
  /\ srcInit' = "done"
  /\ UNCHANGED fvars
  /\ UNCHANGED azvars
  /\ UNCHANGED gwvars
  /\ UNCHANGED <<prog, stdoutTty, stderrTty, stdin, mode, srcState,
                 linesRead, eofSeen, points, emitIdx, flushes>>

\* async for point in points_fn: the source ends without yielding; the loop
\* body never runs and control falls through to the trigger loop.
PluginSampleStop ==
  /\ prog = "plugin" /\ pc = "sample" /\ srcState = "live"
  /\ pulls' = pulls + 1
  /\ srcState' = "stopped"
  /\ pc' = "aiter"
  /\ srcInit' = "done"
  /\ UNCHANGED fvars
  /\ UNCHANGED azvars
  /\ UNCHANGED gwvars
  /\ UNCHANGED <<prog, stdoutTty, stderrTty, stdin, mode, exitCode,
                 linesRead, eofSeen, pulled, points, emitIdx, stdout,
                 flushed, flushes, stderr, workers>>

\* async for point in points_fn: the source raises; nothing catches it.
PluginSampleError ==
  /\ prog = "plugin" /\ pc = "sample" /\ srcState = "live"
  /\ pulls' = pulls + 1
  /\ srcState' = "failed"
  /\ stderr' = Append(stderr, [kind |-> "traceback"])
  /\ Exit(1, stdout)
  /\ srcInit' = "done"
  /\ UNCHANGED fvars
  /\ UNCHANGED azvars
  /\ UNCHANGED gwvars
  /\ UNCHANGED <<prog, stdoutTty, stderrTty, stdin, mode,
                 linesRead, eofSeen, pulled, points, emitIdx, flushes>>

\* Mutant of PluginInitError: the exception of the initialization is
\* swallowed and the driver goes on to wait for the next trigger.
PluginInitError_Continue ==
  /\ prog = "plugin" /\ pc \in {"sample", "produce"}
  /\ srcState = "live" /\ srcInit = "pending"
  /\ pulls' = pulls + 1
  /\ srcInit' = "failed"
  /\ srcState' = "failed"
  /\ pc' = "wait"
  /\ UNCHANGED fvars
  /\ UNCHANGED azvars
  /\ UNCHANGED gwvars
  /\ UNCHANGED <<prog, stdoutTty, stderrTty, stdin, mode, exitCode,
                 linesRead, eofSeen, pulled, points, emitIdx, stdout,
                 flushed, flushes, stderr, workers>>

\* The first __anext__() of the source runs the generator's body from its
\* top ("Do initialization work"), in the one-shot `async for` or in the
\* trigger loop: the initialization raises, nothing catches it.
PluginInitError ==
  /\ prog = "plugin" /\ pc \in {"sample", "produce"}
  /\ srcState = "live" /\ srcInit = "pending"
  /\ pulls' = pulls + 1
  /\ srcInit' = "failed"
  /\ srcState' = "failed"
  /\ stderr' = Append(stderr, [kind |-> "traceback"])
  /\ Exit(1, stdout)
  /\ UNCHANGED fvars
  /\ UNCHANGED azvars
  /\ UNCHANGED gwvars
  /\ UNCHANGED <<prog, stdoutTty, stderrTty, stdin, mode,
                 linesRead, eofSeen, pulled, points, emitIdx, flushes>>

\* Mutant of PluginAiter: creating the iterator already makes the first
\* pull, running the source's initialization.
PluginAiter_Prefetch ==
  /\ prog = "plugin" /\ pc = "aiter"
  /\ pulls' = pulls + 1
  /\ srcInit' = "done"
  /\ pc' = "wait"
  /\ UNCHANGED fvars
  /\ UNCHANGED azvars
  /\ UNCHANGED gwvars
  /\ UNCHANGED <<prog, stdoutTty, stderrTty, stdin, mode, exitCode, srcState,
                 linesRead, eofSeen, pulled, points, emitIdx, stdout,
                 flushed, flushes, stderr, workers>>

\* it = points_fn.__aiter__(): returns the generator itself, runs none of it.
PluginAiter ==
  /\ prog = "plugin" /\ pc = "aiter"
  /\ pc' = "wait"
  /\ UNCHANGED fvars
  /\ UNCHANGED azvars
  /\ UNCHANGED gwvars
  /\ UNCHANGED <<srcInit, prog, stdoutTty, stderrTty, stdin, mode, exitCode, srcState,
                 linesRead, eofSeen, pulls, pulled, points, emitIdx, stdout,
                 flushed, flushes, stderr, workers>>

\* stdin_lines(): line = await reader.readline(); a non-empty line is yielded.
ReadLine ==
  /\ pc = "wait" /\ stdin > 0
  /\ stdin' = stdin - 1
  /\ linesRead' = linesRead + 1
  /\ pc' = "produce"
  /\ UNCHANGED fvars
  /\ UNCHANGED azvars
  /\ UNCHANGED gwvars
  /\ UNCHANGED <<srcInit, prog, stdoutTty, stderrTty, mode, exitCode, srcState,
                 eofSeen, pulls, pulled, points, emitIdx, stdout,
                 flushed, flushes, stderr, workers>>

\* Mutant of ReadEOF: end-of-stream is taken for one more trigger.
ReadEOF_AsTrigger ==
  /\ pc = "wait" /\ stdin = 0 /\ ~eofSeen
  /\ eofSeen' = TRUE
  /\ pc' = "produce"
  /\ UNCHANGED fvars
  /\ UNCHANGED azvars
  /\ UNCHANGED gwvars
  /\ UNCHANGED <<srcInit, prog, stdoutTty, stderrTty, stdin, mode, exitCode, srcState,
                 linesRead, pulls, pulled, points, emitIdx, stdout, flushed,
                 flushes, stderr, workers>>

\* stdin_lines(): if not line: break.  The trigger loop ends, main returns.
ReadEOF ==
  /\ pc = "wait" /\ stdin = 0
  /\ eofSeen' = TRUE
  /\ Exit(0, stdout)
  /\ UNCHANGED fvars
  /\ UNCHANGED azvars
  /\ UNCHANGED gwvars
  /\ UNCHANGED <<srcInit, prog, stdoutTty, stderrTty, stdin, mode, srcState,
                 linesRead, pulls, pulled, points, emitIdx,
                 flushes, stderr>>

\* points = await it.__anext__() yields; a single Point becomes [points].
PluginPullItem ==
  /\ prog = "plugin" /\ pc = "produce" /\ srcState = "live"
  /\ \E item \in SrcItems(pulls + 1) :
       /\ pulls' = pulls + 1
       /\ pulled' = Append(pulled, item)
       /\ points' = item.pts
  /\ emitIdx' = 1
  /\ pc' = "to_thread"
  /\ srcInit' = "done"
  /\ UNCHANGED fvars
  /\ UNCHANGED azvars
  /\ UNCHANGED gwvars
  /\ UNCHANGED <<prog, stdoutTty, stderrTty, stdin, mode, exitCode, srcState,
                 linesRead, eofSeen, stdout, flushed, flushes, stderr,
                 workers>>

\* Mutant of PluginPullStop: the end of the source is skipped over and the
\* loop goes on to the next trigger.
PluginPullStop_Skip ==
  /\ prog = "plugin" /\ pc = "produce"
  /\ pulls' = pulls + 1
  /\ srcState' = "stopped"
  /\ pc' = "wait"
  /\ srcInit' = "done"
  /\ UNCHANGED fvars
  /\ UNCHANGED azvars
  /\ UNCHANGED gwvars
  /\ UNCHANGED <<prog, stdoutTty, stderrTty, stdin, mode, exitCode,
                 linesRead, eofSeen, pulled, points, emitIdx, stdout, flushed,
                 flushes, stderr, workers>>

\* except StopAsyncIteration: logging.exception(...); sys.exit(1)
PluginPullStop ==
  /\ prog = "plugin" /\ pc = "produce"
  /\ pulls' = pulls + 1
  /\ srcState' = "stopped"
  /\ stderr' = Append(stderr, [kind |-> "log_exception"])
  /\ Exit(1, stdout)
  /\ srcInit' = "done"
  /\ UNCHANGED fvars
  /\ UNCHANGED azvars
  /\ UNCHANGED gwvars
  /\ UNCHANGED <<prog, stdoutTty, stderrTty, stdin, mode,
                 linesRead, eofSeen, pulled, points, emitIdx, flushes>>

\* it.__anext__() raises anything else: not caught, the process dies.
PluginPullError ==
  /\ prog = "plugin" /\ pc = "produce" /\ srcState = "live"
  /\ pulls' = pulls + 1
  /\ srcState' = "failed"
  /\ stderr' = Append(stderr, [kind |-> "traceback"])
  /\ Exit(1, stdout)
  /\ srcInit' = "done"
  /\ UNCHANGED fvars
  /\ UNCHANGED azvars
  /\ UNCHANGED gwvars
  /\ UNCHANGED <<prog, stdoutTty, stderrTty, stdin, mode,
                 linesRead, eofSeen, pulled, points, emitIdx, flushes>>

\* Mutant of PluginToThread: _emit_points is started in a thread without
\* being awaited, and the loop goes back to stdin_lines() at once.
PluginToThread_NoAwait ==
  /\ prog = "plugin" /\ pc = "to_thread"
  /\ workers' = workers + 1
  /\ pc' = "wait"
  /\ UNCHANGED fvars
  /\ UNCHANGED azvars
  /\ UNCHANGED gwvars
  /\ UNCHANGED <<srcInit, prog, stdoutTty, stderrTty, stdin, mode, exitCode, srcState,
                 linesRead, eofSeen, pulls, pulled, points, emitIdx, stdout,
                 flushed, flushes, stderr>>

\* await asyncio.to_thread(_emit_points, points): a worker thread starts and
\* the main coroutine is suspended until it returns.
PluginToThread ==
  /\ prog = "plugin" /\ pc = "to_thread"
  /\ workers' = workers + 1
  /\ pc' = "emit"
  /\ UNCHANGED fvars
  /\ UNCHANGED azvars
  /\ UNCHANGED gwvars
  /\ UNCHANGED <<srcInit, prog, stdoutTty, stderrTty, stdin, mode, exitCode, srcState,
                 linesRead, eofSeen, pulls, pulled, points, emitIdx, stdout,
                 flushed, flushes, stderr>>

\* Mutant of EmitPoint: the point is skipped without being written.
EmitPoint_Drop ==
  /\ prog = "plugin" /\ pc = "emit" /\ emitIdx <= Len(points)
  /\ Serializable(points[emitIdx])
  /\ emitIdx' = emitIdx + 1
  /\ UNCHANGED fvars
  /\ UNCHANGED azvars
  /\ UNCHANGED gwvars
  /\ UNCHANGED <<srcInit, prog, stdoutTty, stderrTty, stdin, pc, mode, exitCode,
                 srcState, linesRead, eofSeen, pulls, pulled, points, stdout,
                 flushed, flushes, stderr, workers>>

\* _emit_points: line = point.to_line_protocol(); print(line)
EmitPoint ==
  /\ prog = "plugin" /\ pc = "emit" /\ emitIdx <= Len(points)
  /\ Serializable(points[emitIdx])
  /\ stdout' = Append(stdout, to_line_protocol(points[emitIdx]))
  /\ emitIdx' = emitIdx + 1
  /\ UNCHANGED fvars
  /\ UNCHANGED azvars
  /\ UNCHANGED gwvars
  /\ UNCHANGED <<srcInit, prog, stdoutTty, stderrTty, stdin, pc, mode, exitCode,
                 srcState, linesRead, eofSeen, pulls, pulled, points,
                 flushed, flushes, stderr, workers>>

\* Mutant of EmitPointError: the exception is lost in the worker, which never
\* completes the future the main coroutine is awaiting.
EmitPointError_Hang ==
  /\ prog = "plugin" /\ pc = "emit" /\ emitIdx <= Len(points)
  /\ ~Serializable(points[emitIdx])
  /\ pc' = "hung"
  /\ UNCHANGED fvars
  /\ UNCHANGED azvars
  /\ UNCHANGED gwvars
  /\ UNCHANGED <<srcInit, prog, stdoutTty, stderrTty, stdin, mode, exitCode, srcState,
                 linesRead, eofSeen, pulls, pulled, points, emitIdx, stdout,
                 flushed, flushes, stderr, workers>>

\* _emit_points: point.to_line_protocol() raises; the exception leaves the
\* worker, is re-raised by the await and ends the process.
EmitPointError ==
  /\ prog = "plugin" /\ pc = "emit" /\ emitIdx <= Len(points)
  /\ ~Serializable(points[emitIdx])
  /\ stderr' = Append(stderr, [kind |-> "traceback"])
  /\ Exit(1, stdout)
  /\ UNCHANGED fvars
  /\ UNCHANGED azvars
  /\ UNCHANGED gwvars
  /\ UNCHANGED <<srcInit, prog, stdoutTty, stderrTty, stdin, mode, srcState,
                 linesRead, eofSeen, pulls, pulled, points, emitIdx,
                 flushes>>

\* Mutant of EmitFlush: the worker returns without flushing.
EmitFlush_NoFlush ==
  /\ prog = "plugin" /\ pc = "emit" /\ emitIdx > Len(points)
  /\ workers' = workers - 1
  /\ pc' = "wait"
  /\ UNCHANGED fvars
  /\ UNCHANGED azvars
  /\ UNCHANGED gwvars
  /\ UNCHANGED <<srcInit, prog, stdoutTty, stderrTty, stdin, mode, exitCode, srcState,
                 linesRead, eofSeen, pulls, pulled, points, emitIdx, stdout,
                 flushed, flushes, stderr>>

\* _emit_points: print(flush=True, end=''); the worker returns and the loop
\* goes back to stdin_lines().
EmitFlush ==
  /\ prog = "plugin" /\ pc = "emit" /\ emitIdx > Len(points)
  /\ flushed' = Len(stdout)
  /\ flushes' = flushes + 1
  /\ workers' = workers - 1
  /\ pc' = "wait"
  /\ UNCHANGED fvars
  /\ UNCHANGED azvars
  /\ UNCHANGED gwvars
  /\ UNCHANGED <<srcInit, prog, stdoutTty, stderrTty, stdin, mode, exitCode, srcState,
                 linesRead, eofSeen, pulls, pulled, points, emitIdx, stdout,
                 stderr>>

----------------------------------------------------------------------------
\* The structured values and prefixes unroll_json is exercised on.
K_a == <<"a">>
K_b == <<"b">>
K_a_b == <<"a", "_", "b">>
K_empty == <<>>
K_extra == <<"e", "x", "t", "r", "a">>
Keys == {K_a, K_b, K_a_b, K_empty}
Prefixes == {<<>>, <<"p">>}

Scalars == {JNum(3), JNum(12), JStr(<<"t", "1">>), JBool(TRUE), JNull}

\* Elements of sequences: mappings with or without id, value and a further
\* key, and elements that are no mappings.
IdParts == {<<>>} \cup {<<KV(K_id, x)>> : x \in {JStr(<<"t", "1">>), JNum(3), JStr(<<"3">>)}}
ValueParts == {<<>>} \cup {<<KV(K_value, x)>> : x \in {JNum(12), JBool(TRUE), JNull}}
Entries ==
  {JDict(i \o v) : i \in IdParts, v \in ValueParts}
  \cup {JDict(i \o v \o <<KV(K_extra, JNum(3))>>) :
          i \in IdParts \ {<<>>}, v \in ValueParts \ {<<>>}}
  \cup {JNum(3), JStr(<<"t", "1">>), JList(<<>>)}

SeqsUpTo(S, n) == UNION {[1..m -> S] : m \in 0..n}

Lists == {JList(es) : es \in SeqsUpTo(Entries, MaxEntries)}

\* Values nested in the top-level mappings.
E_t1 == JDict(<<KV(K_id, JStr(<<"t", "1">>)), KV(K_value, JNum(3))>>)
E_t2 == JDict(<<KV(K_id, JStr(<<"t", "2">>)), KV(K_value, JNum(4))>>)
E_novalue == JDict(<<KV(K_id, JStr(<<"t", "2">>))>>)
InnerValues ==
  {JNum(1), JNull, JDict(<<>>),
   JDict(<<KV(K_a, JNum(2))>>), JDict(<<KV(K_b, JNum(2))>>),
   JDict(<<KV(K_b, JDict(<<KV(K_a, JStr(<<"x">>))>>))>>),
   JList(<<E_t1, E_t2>>), JList(<<E_t1, E_t1>>), JList(<<E_t1, E_novalue>>)}

DistinctKeys(kv) == \A i, j \in 1..Len(kv) : kv[i].k = kv[j].k => i = j

Dicts ==
  {JDict(kv) : kv \in
     {s \in SeqsUpTo({KV(k, v) : k \in Keys, v \in InnerValues}, MaxWidth) :
        DistinctKeys(s)}}

JsonValues == Scalars \cup {JOther} \cup Lists \cup Dicts

----------------------------------------------------------------------------
\* azrouter2influxdb.query_data

\* What the device may answer on its two endpoints.
StatusJsons ==
  {JDict(<<KV(K_a, JNum(1)), KV(<<"x">>, JList(<<E_t1, E_t2>>))>>),
   JDict(<<KV(K_a, JList(<<E_t1, E_novalue>>))>>),
   JList(<<E_t1>>)}
PowerJsons ==
  {JDict(<<KV(K_b, JNum(2))>>), JDict(<<KV(K_a, JNum(5))>>)}

M_azrouter == <<"a", "z", "r", "o", "u", "t", "e", "r">>

\* {**status_json, **power_json}: the keys of the first mapping in order, a
\* key of the second replacing the value in place or being appended;
\* TypeError when either is no mapping.
MergeOk(a, b) == a.t = "dict" /\ b.t = "dict"
Merge(a, b) ==
  JDict([i \in 1..Len(a.kv) |->
           IF HasKey(b, a.kv[i].k) THEN KV(a.kv[i].k, GetKey(b, a.kv[i].k))
           ELSE a.kv[i]]
        \o SelectSeq(b.kv, LAMBDA e : ~HasKey(a, e.k)))

\* async with aiohttp.ClientSession(): if os.isatty(sys.stdout.fileno()):
AzStart ==
  /\ prog = "azrouter" /\ pc = "start"
  /\ IF stdoutTty
       THEN /\ mode' = "interactive"
            /\ stderr' = Append(stderr, [kind |-> "log_info"])
            /\ pc' = "az_sample_status"
       ELSE /\ mode' = "noninteractive"
            /\ stderr' = stderr
            /\ pc' = "wait"
  /\ srcInit' = "done"
  /\ UNCHANGED fvars
  /\ UNCHANGED azvars
  /\ UNCHANGED gwvars
  /\ UNCHANGED <<prog, stdoutTty, stderrTty, stdin, exitCode, srcState,
                 linesRead, eofSeen, pulls, pulled, points, emitIdx, stdout,
                 flushed, flushes, workers>>

\* status_json = await status(session, host)
AzSampleStatus ==
  /\ prog = "azrouter" /\ pc = "az_sample_status"
  /\ \E j \in StatusJsons : statusJson' = j
  /\ statusFetches' = statusFetches + 1
  /\ pulls' = pulls + 1
  /\ pc' = "az_sample_power"
  /\ UNCHANGED fvars
  /\ UNCHANGED <<powerJson, powerFetches>>
  /\ UNCHANGED gwvars
  /\ UNCHANGED <<srcInit, prog, stdoutTty, stderrTty, stdin, mode, exitCode, srcState,
                 linesRead, eofSeen, pulled, points, emitIdx, stdout,
                 flushed, flushes, stderr, workers>>

\* power_json = await power(session, host)
AzSamplePower ==
  /\ prog = "azrouter" /\ pc = "az_sample_power"
  /\ \E j \in PowerJsons : powerJson' = j
  /\ powerFetches' = powerFetches + 1
  /\ pc' = "az_print_sample"
  /\ UNCHANGED fvars
  /\ UNCHANGED <<statusJson, statusFetches>>
  /\ UNCHANGED gwvars
  /\ UNCHANGED <<srcInit, prog, stdoutTty, stderrTty, stdin, mode, exitCode, srcState,
                 linesRead, eofSeen, pulls, pulled, points, emitIdx, stdout,
                 flushed, flushes, stderr, workers>>

\* session.get(url) / response.json() raises in status() or power().
AzFetchError ==
  /\ prog = "azrouter"
  /\ \/ /\ pc \in {"az_sample_status", "produce"}
        /\ statusFetches' = statusFetches + 1
        /\ pulls' = pulls + 1
        /\ powerFetches' = powerFetches
     \/ /\ pc = "az_sample_power"
        /\ powerFetches' = powerFetches + 1
        /\ pulls' = pulls
        /\ statusFetches' = statusFetches
  /\ stderr' = Append(stderr, [kind |-> "traceback"])
  /\ Exit(1, stdout)
  /\ srcState' = "failed"
  /\ UNCHANGED fvars
  /\ UNCHANGED <<statusJson, powerJson>>
  /\ UNCHANGED gwvars
  /\ UNCHANGED <<srcInit, prog, stdoutTty, stderrTty, stdin, mode,
                 linesRead, eofSeen, pulled, points, emitIdx, flushes>>

\* await print_sample(measurement_name, {}, {**status_json, **power_json}); return
\* print_sample logs the data, builds the point and logs its line.
AzPrintSample ==
  /\ prog = "azrouter" /\ pc = "az_print_sample"
  /\ IF ~MergeOk(statusJson, powerJson)
       THEN /\ stderr' = Append(stderr, [kind |-> "traceback"])
            /\ pulled' = pulled
            /\ srcState' = "failed"
            /\ Exit(1, stdout)
       ELSE LET json == Merge(statusJson, powerJson)
                bp == build_point(M_azrouter, <<>>, json)
            IN IF ~bp.ok
                 THEN /\ stderr' = stderr \o <<[kind |-> "log_info", data |-> json],
                                               [kind |-> "traceback"]>>
                      /\ pulled' = pulled
                      /\ srcState' = "failed"
                      /\ Exit(1, stdout)
                 ELSE /\ stderr' = stderr \o
                           <<[kind |-> "log_info", data |-> json],
                             [kind |-> "sample",
                              item |-> to_line_protocol(bp.point)]>>
                      /\ pulled' = Append(pulled, [single |-> TRUE,
                                                   pts |-> <<bp.point>>])
                      /\ srcState' = srcState
                      /\ Exit(0, stdout)
  /\ UNCHANGED fvars
  /\ UNCHANGED azvars
  /\ UNCHANGED gwvars
  /\ UNCHANGED <<srcInit, prog, stdoutTty, stderrTty, stdin, mode,
                 linesRead, eofSeen, pulls, points, emitIdx, flushes>>

\* async for _ in stdin_lines(): result = await status(session, host)
AzStatus ==
  /\ prog = "azrouter" /\ pc = "produce"
  /\ \E j \in StatusJsons : statusJson' = j
  /\ statusFetches' = statusFetches + 1
  /\ pulls' = pulls + 1
  /\ pc' = "az_build"
  /\ UNCHANGED fvars
  /\ UNCHANGED <<powerJson, powerFetches>>
  /\ UNCHANGED gwvars
  /\ UNCHANGED <<srcInit, prog, stdoutTty, stderrTty, stdin, mode, exitCode, srcState,
                 linesRead, eofSeen, pulled, points, emitIdx, stdout,
                 flushed, flushes, stderr, workers>>

\* point = await build_point(measurement_name, {}, result)
\* line = point.to_line_protocol(); print(line, flush=True)
AzBuildEmit ==
  /\ prog = "azrouter" /\ pc = "az_build"
  /\ LET bp == build_point(M_azrouter, <<>>, statusJson)
     IN /\ bp.ok
        /\ pulled' = Append(pulled, [single |-> TRUE, pts |-> <<bp.point>>])
        /\ points' = <<bp.point>>
        /\ stdout' = Append(stdout, to_line_protocol(bp.point))
  /\ flushed' = Len(stdout')
  /\ flushes' = flushes + 1
  /\ pc' = "wait"
  /\ UNCHANGED fvars
  /\ UNCHANGED azvars
  /\ UNCHANGED gwvars
  /\ UNCHANGED <<srcInit, prog, stdoutTty, stderrTty, stdin, mode, exitCode, srcState,
                 linesRead, eofSeen, pulls, emitIdx, stderr, workers>>

\* Mutant of AzBuildError: the exception is caught, the sample is skipped
\* and the loop goes on.
AzBuildError_Skip ==
  /\ prog = "azrouter" /\ pc = "az_build"
  /\ ~build_point(M_azrouter, <<>>, statusJson).ok
  /\ srcState' = "failed"
  /\ pc' = "wait"
  /\ UNCHANGED fvars
  /\ UNCHANGED azvars
  /\ UNCHANGED gwvars
  /\ UNCHANGED <<srcInit, prog, stdoutTty, stderrTty, stdin, mode, exitCode,
                 linesRead, eofSeen, pulls, pulled, points, emitIdx, stdout,
                 flushed, flushes, stderr, workers>>

\* build_point raises (an exception leaves unroll_json): nothing catches it.
AzBuildError ==
  /\ prog = "azrouter" /\ pc = "az_build"
  /\ ~build_point(M_azrouter, <<>>, statusJson).ok
  /\ stderr' = Append(stderr, [kind |-> "traceback"])
  /\ Exit(1, stdout)
  /\ srcState' = "failed"
  /\ UNCHANGED fvars
  /\ UNCHANGED azvars
  /\ UNCHANGED gwvars
  /\ UNCHANGED <<srcInit, prog, stdoutTty, stderrTty, stdin, mode,
                 linesRead, eofSeen, pulls, pulled, points, emitIdx, flushes>>

----------------------------------------------------------------------------
\* goodwe2influxdb.get_runtime_data

\* Mutant of UnitMap: the unit is used as the suffix unchanged.
UnitMap_Identity(unit) == unit

\* Transformation of unit names to field name suffixes ("None": no suffix).
UnitMap(unit) ==
  CASE unit = "%" -> "pct"
    [] unit = "1" -> "None"
    [] OTHER -> unit
IGNORED_FIELDS == {"timestamp"}

\* The inverter's sensors() (id_, unit), in the order of the library.
Sensors ==
  <<[id_ |-> "timestamp", unit |-> ""],
    [id_ |-> "ppv", unit |-> "W"],
    [id_ |-> "battery_soc", unit |-> "%"],
    [id_ |-> "work_mode", unit |-> ""],
    [id_ |-> "meter_power_factor", unit |-> "1"]>>
SensorIds == {Sensors[i].id_ : i \in 1..Len(Sensors)}

\* A reading: absent from the mapping, None, or a value.
Absent == [r |-> "absent"]
RNone == [r |-> "None"]
RVal(n) == [r |-> "value", n |-> n]

\* What read_runtime_data() may return in a run of the program.
DeviceReadings ==
  {[s \in SensorIds |-> RVal(5)],
   [s \in SensorIds |->
      CASE s = "ppv" -> RVal(0)
        [] s = "battery_soc" -> RNone
        [] s = "work_mode" -> Absent
        [] OTHER -> RVal(7)]}

\* The optional identity attributes, in the order of the code, and the
\* inverters of the model: getattr gives a text, "" or "None" (attribute
\* missing or None).
TagAttrs == <<"model_name", "serial_number", "dsp1_version", "dsp2_version",
              "arm_version", "firmware">>
Inverters ==
  {[a \in {TagAttrs[i] : i \in 1..Len(TagAttrs)} |-> "v1"],
   [a \in {TagAttrs[i] : i \in 1..Len(TagAttrs)} |->
      CASE a = "model_name" -> "GW5000"
        [] a = "serial_number" -> ""
        [] OTHER -> "None"]}

\* Before goodwe.connect() returns there is no inverter, and before the first
\* read_runtime_data() returns there is no runtime data.
NotConnected == [connected |-> FALSE]
NotRead == [read |-> FALSE]

Truthy(value) == value # "None" /\ value # ""

\* tags = {"ip_address": ip_address}; for attr in [...]: if value: tags[attr] = value
RECURSIVE CollectTags(_, _, _)
CollectTags(inv, acc, i) ==
  IF i > Len(TagAttrs) THEN acc
  ELSE CollectTags(inv,
                   IF Truthy(inv[TagAttrs[i]])
                     THEN Append(acc, KV(TagAttrs[i], inv[TagAttrs[i]]))
                     ELSE acc,
                   i + 1)

\* read_point's loop over inverter.sensors(): the fields of the point.
RECURSIVE SensorFields(_, _)
SensorFields(runtime_data, i) ==
  IF i > Len(Sensors) THEN <<>>
  ELSE LET sensor == Sensors[i]
           data == runtime_data[sensor.id_]
           unit == UnitMap(sensor.unit)
           field == IF unit # "None" /\ unit # ""
                      THEN sensor.id_ \o "_" \o unit
                      ELSE sensor.id_
       IN (IF data.r \in {"absent", "None"} \/ sensor.id_ \in IGNORED_FIELDS
             THEN <<>>
             ELSE <<[key |-> field, val |-> data.n]>>)
          \o SensorFields(runtime_data, i + 1)

read_point(runtime_data, measurement_name, tgs) ==
  [measurement |-> measurement_name, tags |-> tgs,
   fields |-> SensorFields(runtime_data, 1), ok |-> TRUE]

M_photovoltaic == "photovoltaic"

\* print_sample: the "Runtime data:" lines, one per sensor whose id is in
\* runtime_data.
RECURSIVE SensorLines(_, _)
SensorLines(runtime_data, i) ==
  IF i > Len(Sensors) THEN <<>>
  ELSE (IF runtime_data[Sensors[i].id_].r = "absent" THEN <<>>
        ELSE <<[text |-> "sensor", id_ |-> Sensors[i].id_,
                data |-> runtime_data[Sensors[i].id_]]>>)
       \o SensorLines(runtime_data, i + 1)

\* if ip_address is None: ip_address = await detect_ip_address()
GwStart ==
  /\ prog = "goodwe" /\ pc = "start"
  /\ IF ipArg = "None"
       THEN pc' = "gw_detect" /\ ipAddress' = ipAddress
       ELSE pc' = "gw_connect" /\ ipAddress' = ipArg
  /\ UNCHANGED fvars
  /\ UNCHANGED azvars
  /\ UNCHANGED <<ipArg, inverter, tags, runtimeData, reads, connects,
                 discoveries>>
  /\ UNCHANGED <<srcInit, prog, stdoutTty, stderrTty, stdin, mode, exitCode, srcState,
                 linesRead, eofSeen, pulls, pulled, points, emitIdx, stdout,
                 flushed, flushes, stderr, workers>>

\* detect_ip_address: the first comma-separated part of the UDP response.
GwDetect ==
  /\ prog = "goodwe" /\ pc = "gw_detect"
  /\ \E response \in {<<"192.168.1.14", "MAC", "NAME">>} :
       ipAddress' = response[1]
  /\ discoveries' = discoveries + 1
  /\ pc' = "gw_connect"
  /\ UNCHANGED fvars
  /\ UNCHANGED azvars
  /\ UNCHANGED <<ipArg, inverter, tags, runtimeData, reads, connects>>
  /\ UNCHANGED <<srcInit, prog, stdoutTty, stderrTty, stdin, mode, exitCode, srcState,
                 linesRead, eofSeen, pulls, pulled, points, emitIdx, stdout,
                 flushed, flushes, stderr, workers>>

\* goodwe.search_inverters() or goodwe.connect() raises: the process dies
\* before the isatty test and before stdin is read.
GwInitError ==
  /\ prog = "goodwe"
  /\ \/ /\ pc = "gw_detect"
        /\ discoveries' = discoveries + 1 /\ connects' = connects
     \/ /\ pc = "gw_connect"
        /\ connects' = connects + 1 /\ discoveries' = discoveries
  /\ stderr' = Append(stderr, [kind |-> "traceback"])
  /\ Exit(1, stdout)
  /\ srcInit' = "failed"
  /\ UNCHANGED fvars
  /\ UNCHANGED azvars
  /\ UNCHANGED <<ipArg, ipAddress, inverter, tags, runtimeData, reads>>
  /\ UNCHANGED <<prog, stdoutTty, stderrTty, stdin, mode, srcState,
                 linesRead, eofSeen, pulls, pulled, points, emitIdx, flushes>>

\* inverter = await goodwe.connect(ip_address); the tags are collected.
GwConnect ==
  /\ prog = "goodwe" /\ pc = "gw_connect"
  /\ \E inv \in Inverters :
       /\ inverter' = inv
       /\ tags' = CollectTags(inv, <<KV("ip_address", ipAddress)>>, 1)
  /\ connects' = connects + 1
  /\ pc' = "gw_isatty"
  /\ srcInit' = "done"
  /\ UNCHANGED fvars
  /\ UNCHANGED azvars
  /\ UNCHANGED <<ipArg, ipAddress, runtimeData, reads, discoveries>>
  /\ UNCHANGED <<prog, stdoutTty, stderrTty, stdin, mode, exitCode, srcState,
                 linesRead, eofSeen, pulls, pulled, points, emitIdx, stdout,
                 flushed, flushes, stderr, workers>>

\* if os.isatty(sys.stdout.fileno()): print_sample(...) starts by printing
\* the tags to sys.stdout (logging.info is below the WARNING level).
GwIsatty ==
  /\ prog = "goodwe" /\ pc = "gw_isatty"
  /\ IF stdoutTty
       THEN /\ mode' = "interactive"
            /\ stdout' = stdout \o <<[text |-> "Tags:"]>>
                         \o [i \in 1..Len(tags) |-> [text |-> "tag", tag |-> tags[i]]]
                         \o <<[text |-> "Runtime data:"]>>
            /\ pc' = "gw_sample_read"
       ELSE /\ mode' = "noninteractive"
            /\ stdout' = stdout
            /\ pc' = "wait"
  /\ UNCHANGED fvars
  /\ UNCHANGED azvars
  /\ UNCHANGED gwvars
  /\ UNCHANGED <<srcInit, prog, stdoutTty, stderrTty, stdin, exitCode, srcState,
                 linesRead, eofSeen, pulls, pulled, points, emitIdx,
                 flushed, flushes, stderr, workers>>

\* print_sample: runtime_data = await inverter.read_runtime_data(), then the
\* sensor lines and "In line format:".
GwSampleRead ==
  /\ prog = "goodwe" /\ pc = "gw_sample_read"
  /\ \E rd \in DeviceReadings :
       /\ runtimeData' = rd
       /\ stdout' = stdout \o SensorLines(rd, 1) \o <<[text |-> "In line format:"]>>
  /\ reads' = reads + 1
  /\ pc' = "gw_sample_point"
  /\ UNCHANGED fvars
  /\ UNCHANGED azvars
  /\ UNCHANGED <<ipArg, ipAddress, inverter, tags, connects, discoveries>>
  /\ UNCHANGED <<srcInit, prog, stdoutTty, stderrTty, stdin, mode, exitCode, srcState,
                 linesRead, eofSeen, pulls, pulled, points, emitIdx,
                 flushed, flushes, stderr, workers>>

\* print_sample: point = await read_point(...); print(point.to_line_protocol())
GwSamplePoint ==
  /\ prog = "goodwe" /\ pc = "gw_sample_point"
  /\ \E rd \in DeviceReadings :
       LET point == read_point(rd, M_photovoltaic, tags)
       IN /\ runtimeData' = rd
          /\ pulled' = Append(pulled, [single |-> TRUE, pts |-> <<point>>])
          /\ Exit(0, Append(stdout, to_line_protocol(point)))
  /\ reads' = reads + 1
  /\ pulls' = pulls + 1
  /\ UNCHANGED fvars
  /\ UNCHANGED azvars
  /\ UNCHANGED <<ipArg, ipAddress, inverter, tags, connects, discoveries>>
  /\ UNCHANGED <<srcInit, prog, stdoutTty, stderrTty, stdin, mode, srcState,
                 linesRead, eofSeen, points, emitIdx, flushes, stderr>>

\* Mutant of GwReadPoint: the inverter is connected and the tags are
\* collected anew on every trigger.
GwReadPoint_Reconnect ==
  /\ prog = "goodwe" /\ pc = "produce"
  /\ \E inv \in Inverters, rd \in DeviceReadings :
       LET tgs == CollectTags(inv, <<KV("ip_address", ipAddress)>>, 1)
           point == read_point(rd, M_photovoltaic, tgs)
       IN /\ inverter' = inv
          /\ tags' = tgs
          /\ runtimeData' = rd
          /\ pulled' = Append(pulled, [single |-> TRUE, pts |-> <<point>>])
          /\ points' = <<point>>
          /\ stdout' = Append(stdout, to_line_protocol(point))
  /\ connects' = connects + 1
  /\ reads' = reads + 1
  /\ pulls' = pulls + 1
  /\ flushed' = Len(stdout')
  /\ flushes' = flushes + 1
  /\ pc' = "wait"
  /\ UNCHANGED fvars
  /\ UNCHANGED azvars
  /\ UNCHANGED <<ipArg, ipAddress, discoveries>>
  /\ UNCHANGED <<srcInit, prog, stdoutTty, stderrTty, stdin, mode, exitCode, srcState,
                 linesRead, eofSeen, emitIdx, stderr, workers>>

\* async for _ in stdin_lines(): point = await read_point(...)
\* line = point.to_line_protocol(); print(line, flush=True)
GwReadPoint ==
  /\ prog = "goodwe" /\ pc = "produce"
  /\ \E rd \in DeviceReadings :
       LET point == read_point(rd, M_photovoltaic, tags)
       IN /\ runtimeData' = rd
          /\ pulled' = Append(pulled, [single |-> TRUE, pts |-> <<point>>])
          /\ points' = <<point>>
          /\ stdout' = Append(stdout, to_line_protocol(point))
  /\ reads' = reads + 1
  /\ pulls' = pulls + 1
  /\ flushed' = Len(stdout')
  /\ flushes' = flushes + 1
  /\ pc' = "wait"
  /\ UNCHANGED fvars
  /\ UNCHANGED azvars
  /\ UNCHANGED <<ipArg, ipAddress, inverter, tags, connects, discoveries>>
  /\ UNCHANGED <<srcInit, prog, stdoutTty, stderrTty, stdin, mode, exitCode, srcState,
                 linesRead, eofSeen, emitIdx, stderr, workers>>

\* inverter.read_runtime_data() raises, in print_sample or in read_point.
GwReadError ==
  /\ prog = "goodwe" /\ pc \in {"gw_sample_read", "gw_sample_point", "produce"}
  /\ reads' = reads + 1
  /\ pulls' = IF pc = "gw_sample_read" THEN pulls ELSE pulls + 1
  /\ stderr' = Append(stderr, [kind |-> "traceback"])
  /\ Exit(1, stdout)
  /\ srcState' = "failed"
  /\ UNCHANGED fvars
  /\ UNCHANGED azvars
  /\ UNCHANGED <<ipArg, ipAddress, inverter, tags, runtimeData, connects,
                 discoveries>>
  /\ UNCHANGED <<srcInit, prog, stdoutTty, stderrTty, stdin, mode,
                 linesRead, eofSeen, pulled, points, emitIdx, flushes>>

NoResult == [pairs |-> <<>>, err |-> "unset"]
NoPoint == [ok |-> FALSE, err |-> "unset"]

\* The harness calls unroll_json(fPrefix, fJson) and iterates it to the end.
CallUnroll ==
  /\ fpc = "input"
  /\ fResult' = unroll_json(fPrefix, fJson)
  /\ fpc' = "unrolled"
  /\ UNCHANGED <<fPrefix, fJson, fPoint>>
  /\ UNCHANGED dvars
  /\ UNCHANGED azvars
  /\ UNCHANGED gwvars

\* The harness calls build_point on the same value.
CallBuildPoint ==
  /\ fpc = "unrolled"
  /\ fPoint' = build_point(<<"m">>, <<>>, fJson)
  /\ fpc' = "built"
  /\ UNCHANGED <<fPrefix, fJson, fResult>>
  /\ UNCHANGED dvars
  /\ UNCHANGED azvars
  /\ UNCHANGED gwvars

----------------------------------------------------------------------------
Init ==
  /\ prog \in Programs
  /\ stdoutTty \in BOOLEAN
  /\ stderrTty \in BOOLEAN
  /\ stdin \in 0..MaxLines
  /\ pc = "start"
  /\ mode = "none"
  /\ exitCode = -1
  /\ srcState = "live"
  /\ linesRead = 0
  /\ eofSeen = FALSE
  /\ pulls = 0
  /\ pulled = <<>>
  /\ points = <<>>
  /\ emitIdx = 1
  /\ stdout = <<>>
  /\ flushed = 0
  /\ flushes = 0
  /\ stderr = <<>>
  /\ workers = 0
  /\ srcInit = "pending"
  /\ statusJson = JNull /\ powerJson = JNull
  /\ statusFetches = 0 /\ powerFetches = 0
  /\ ipArg \in (IF prog = "goodwe" THEN {"None", "10.0.0.5"} ELSE {"None"})
  /\ ipAddress = "None" /\ inverter = NotConnected /\ tags = <<>>
  /\ runtimeData = NotRead
  /\ reads = 0 /\ connects = 0 /\ discoveries = 0
  /\ fpc = "idle"
  /\ fPrefix = <<>>
  /\ fJson = JNull
  /\ fResult = NoResult
  /\ fPoint = NoPoint

Next ==
  \/ PluginStart
  \/ PluginSampleYield
  \/ PluginSampleStop
  \/ PluginSampleError
  \/ PluginInitError
  \/ PluginAiter
  \/ ReadLine
  \/ ReadEOF
  \/ PluginPullItem
  \/ PluginPullStop
  \/ PluginPullError
  \/ PluginToThread
  \/ EmitPoint
  \/ EmitPointError
  \/ EmitFlush
  \/ AzStart
  \/ AzSampleStatus
  \/ AzSamplePower
  \/ AzFetchError
  \/ AzPrintSample
  \/ AzStatus
  \/ AzBuildEmit
  \/ AzBuildError
  \/ GwStart
  \/ GwDetect
  \/ GwInitError
  \/ GwConnect
  \/ GwIsatty
  \/ GwSampleRead
  \/ GwSamplePoint
  \/ GwReadPoint
  \/ GwReadError

vars == <<dvars, azvars, gwvars, fvars>>

Spec == Init /\ [][Next]_vars

\* The steps of a run other than waiting on standard input.  Startup is the
\* interpreter running the coroutine up to its first await on a device or
\* on stdin; Produce is a pull from the point source (a fetch, a read of the
\* device, building the point) returning or raising; Emit is the write of
\* the batch, offloaded or not, returning or raising.
Startup ==
  \/ PluginStart \/ PluginAiter \/ AzStart \/ GwStart \/ GwIsatty
Produce ==
  \/ PluginSampleYield \/ PluginSampleStop \/ PluginSampleError
  \/ PluginInitError
  \/ PluginPullItem \/ PluginPullStop \/ PluginPullError
  \/ AzSampleStatus \/ AzSamplePower \/ AzFetchError \/ AzPrintSample
  \/ AzStatus
  \/ GwDetect \/ GwInitError \/ GwConnect
  \/ GwSampleRead \/ GwSamplePoint \/ GwReadPoint \/ GwReadError
Emit ==
  \/ PluginToThread \/ EmitPoint \/ EmitPointError \/ EmitFlush
  \/ AzBuildEmit \/ AzBuildError

\* A run in which every pull from the source and every write eventually
\* returns; nothing is assumed about standard input, which may stay silent
\* for ever.
LiveSpec ==
  Spec /\ WF_vars(Startup) /\ WF_vars(Produce) /\ WF_vars(Emit)

\* The unroll_json / build_point harness: no program runs; the inputs are
\* drawn from the bounded sets above.
FlatInit ==
  /\ prog = "none"
  /\ stdoutTty = FALSE /\ stderrTty = FALSE
  /\ stdin = 0
  /\ pc = "idle"
  /\ mode = "none"
  /\ exitCode = -1
  /\ srcState = "live"
  /\ linesRead = 0
  /\ eofSeen = FALSE
  /\ pulls = 0
  /\ pulled = <<>>
  /\ points = <<>>
  /\ emitIdx = 1
  /\ stdout = <<>>
  /\ flushed = 0
  /\ flushes = 0
  /\ stderr = <<>>
  /\ workers = 0
  /\ srcInit = "pending"
  /\ statusJson = JNull /\ powerJson = JNull
  /\ statusFetches = 0 /\ powerFetches = 0
  /\ ipArg = "None"
  /\ ipAddress = "None" /\ inverter = NotConnected /\ tags = <<>>
  /\ runtimeData = NotRead
  /\ reads = 0 /\ connects = 0 /\ discoveries = 0
  /\ fpc = "input"
  /\ fPrefix \in Prefixes
  /\ fJson \in JsonValues
  /\ fResult = NoResult
  /\ fPoint = NoPoint

FlatNext ==
  \/ CallUnroll
  \/ CallBuildPoint

FlatSpec == FlatInit /\ [][FlatNext]_vars

----------------------------------------------------------------------------
\* Vocabulary of the properties.

IsPrefix(s, u) == Len(s) <= Len(u) /\ \A i \in 1..Len(s) : s[i] = u[i]

\* The lines of a sequence of items, one per point, in source order.
RECURSIVE LinesOf(_)
LinesOf(items) ==
  IF items = <<>> THEN <<>>
  ELSE [j \in 1..Len(Head(items).pts) |-> to_line_protocol(Head(items).pts[j])]
       \o LinesOf(Tail(items))

Logged(kind) == \E i \in 1..Len(stderr) : stderr[i].kind = kind

\* The main coroutine is between two cycles, or has returned normally.
Quiescent == pc = "wait" \/ (pc = "done" /\ exitCode = 0)

----------------------------------------------------------------------------
\* C1: in non-interactive mode the source is pulled once per trigger line
\* read, the k-th line read pulls the k-th item, and standard output is
\* always a prefix of the pulled items' lines in source order; between
\* cycles and at the normal end every item pulled has been written whole and
\* flushed, so that after EOF the n lines read have produced exactly the
\* first n items' lines, none dropped, duplicated or reordered.
C1_OneCyclePerTrigger ==
  mode = "noninteractive" =>
    /\ pulls <= linesRead
    /\ linesRead <= pulls + 1
    /\ Len(pulled) <= pulls
    /\ IsPrefix(stdout, LinesOf(pulled))
    /\ prog = "plugin" =>
         \A k \in 1..Len(pulled) :
           \A j \in 1..Len(pulled[k].pts) : pulled[k].pts[j].pull = k
    /\ Quiescent =>
         /\ pulls = linesRead
         /\ Len(pulled) = linesRead
         /\ stdout = LinesOf(pulled)
         /\ flushed = Len(stdout)
    /\ (pc = "done" /\ exitCode = 0) => stdin = 0

C1_Witness ==
  /\ prog = "plugin" /\ mode = "noninteractive"
  /\ pc = "done" /\ exitCode = 0
  /\ linesRead = 3 /\ Len(stdout) > 3

\* C2: in non-interactive mode, end-of-stream seen in Wait-For-Trigger ends
\* the run with exit code 0 in that very step, with no pull and no write;
\* and once end-of-stream has been seen nothing happens any more.
C2_EofEndsCleanly ==
  [][ /\ ~eofSeen
      /\ (mode = "noninteractive" /\ pc = "wait" /\ stdin = 0) =>
           /\ eofSeen' /\ pc' = "done" /\ exitCode' = 0
           /\ pulls' = pulls /\ pulled' = pulled
           /\ stdout' = stdout /\ linesRead' = linesRead ]_vars

C2_Witness ==
  /\ mode = "noninteractive" /\ eofSeen /\ pc = "done" /\ exitCode = 0
  /\ pulls = linesRead /\ stdout = LinesOf(pulled)

\* C3: in non-interactive mode, when the source ends on its k-th pull the
\* driver has logged it and the process has ended with a non-zero status;
\* the k-1 earlier items are written whole and flushed, nothing is written
\* for the k-th trigger and the remaining trigger lines stay unread.
C3_SourceEndIsFatal ==
  (mode = "noninteractive" /\ srcState = "stopped") =>
    /\ pc = "done" /\ exitCode > 0
    /\ Logged("log_exception")
    /\ pulls = linesRead
    /\ Len(pulled) = pulls - 1
    /\ stdout = LinesOf(pulled)
    /\ flushed = Len(stdout)

C3_Witness ==
  /\ mode = "noninteractive" /\ srcState = "stopped"
  /\ pulls = 2 /\ Len(stdout) > 0 /\ stdin > 0

\* C4: a failure raised while producing (a transport error of a fetch or
\* read, an exception out of unroll_json / build_point) ends the process
\* with a non-zero status; in non-interactive mode no line is written for
\* the trigger whose pull failed: the output holds exactly the earlier
\* items; and the failed pull is the last one.
C4_ProduceFailureIsFatal ==
  srcState = "failed" =>
    /\ pc = "done" /\ exitCode > 0
    /\ Logged("traceback")
    /\ mode = "noninteractive" =>
         /\ pulls = linesRead
         /\ Len(pulled) = pulls - 1
         /\ stdout = LinesOf(pulled)

C4_Witness ==
  /\ prog = "azrouter" /\ mode = "noninteractive" /\ srcState = "failed"
  /\ pulls = 2 /\ Len(stdout) = 1 /\ stdin > 0
  /\ ~build_point(M_azrouter, <<>>, statusJson).ok

\* C5 as stated: the one-shot interactive path is taken exactly when
\* standard output is a terminal, whatever standard error is.
C5_ModeByStdout ==
  mode # "none" => (mode = "interactive" <=> stdoutTty)

\* The descriptor whose isatty() the program tests at start.
TestedTty == IF prog = "plugin" THEN stderrTty ELSE stdoutTty

\* C5, amended: the mode is selected once, by one isatty() test, and the
\* one-shot interactive path is taken exactly when that test is true;
\* telegraf_plugin_main tests standard error (whatever standard output is),
\* goodwe and azrouter test standard output (whatever standard error is).  A
\* run in non-interactive mode never visits the one-shot path.
C5_ModeSelection ==
  /\ mode # "none" => (mode = "interactive" <=> TestedTty)
  /\ mode = "noninteractive" =>
       pc \in {"aiter", "wait", "produce", "to_thread", "emit", "az_build",
               "done"}
  /\ pc \in {"sample", "az_sample_status", "az_sample_power",
             "az_print_sample", "gw_sample_read", "gw_sample_point"} =>
       mode = "interactive"

C5_Witness ==
  /\ prog = "plugin" /\ pc = "sample" /\ mode = "interactive"
  /\ stderrTty /\ ~stdoutTty

\* The one-shot sample was taken and reported without any failure.
SampleTaken ==
  mode = "interactive" /\ pc = "done" /\ Len(pulled) = 1
  /\ ~Logged("traceback")

\* C6 as stated: after the interactive sample exactly one item was pulled,
\* standard output is empty, the sample is on standard error, exit code 0.
C6_SampleOnStderrOnly ==
  SampleTaken =>
    /\ pulls = 1 /\ exitCode = 0
    /\ stdout = <<>>
    /\ Logged("sample")

\* C6, amended: in interactive mode exactly one item is pulled, no trigger
\* line is read and the process exits with code 0 once the sample is
\* reported; telegraf_plugin_main and azrouter write nothing at all to
\* standard output and report the sample on standard error, whereas goodwe
\* prints its sample (tags, runtime data, the line) to standard output and
\* nothing to standard error.
C6_InteractiveSample ==
  /\ (mode = "interactive" /\ prog # "goodwe") => stdout = <<>>
  /\ (mode = "interactive" /\ prog = "goodwe") => ~Logged("sample")
  /\ SampleTaken =>
       /\ pulls = 1 /\ exitCode = 0 /\ linesRead = 0
       /\ IF prog = "goodwe"
            THEN /\ stdout # <<>>
                 /\ stdout[Len(stdout)] = to_line_protocol(pulled[1].pts[1])
                 /\ stderr = <<>>
            ELSE Logged("sample")

C6_Witness ==
  /\ SampleTaken /\ prog = "plugin" /\ stderrTty /\ stdoutTty
  /\ Logged("sample") /\ exitCode = 0

\* Every point of the item serializes.
AllOk(item) == \A j \in 1..Len(item.pts) : Serializable(item.pts[j])

\* C10: in non-interactive mode standard output only ever holds lines of
\* batches all of whose points were produced and serialized successfully: no
\* line of a batch one of whose points fails to serialize is written.
C10_WholeBatchesOnly ==
  mode = "noninteractive" =>
    IsPrefix(stdout, LinesOf(SelectSeq(pulled, AllOk)))

----------------------------------------------------------------------------
\* Properties of unroll_json (checked under FlatSpec).

\* A sequence element as the specification wants it: a mapping with exactly
\* the two keys id and value.
WellFormedEntry(e) ==
  e.t = "dict" /\ Len(e.kv) = 2 /\ HasKey(e, K_id) /\ HasKey(e, K_value)

RECURSIVE WellFormed(_)
WellFormed(v) ==
  CASE IsScalar(v) -> TRUE
    [] v.t = "dict" -> \A i \in 1..Len(v.kv) : WellFormed(v.kv[i].v)
    [] v.t = "list" -> \A i \in 1..Len(v.elems) : WellFormedEntry(v.elems[i])
    [] OTHER -> FALSE

\* The reference definition of flatten(prefix, value).
Join(prefix, key) == IF prefix = <<>> THEN key ELSE prefix \o <<"_">> \o key

RECURSIVE RefFlatten(_, _)
RECURSIVE RefMapping(_, _)
RefMapping(prefix, kv) ==
  IF kv = <<>> THEN <<>>
  ELSE RefFlatten(Join(prefix, Head(kv).k), Head(kv).v)
       \o RefMapping(prefix, Tail(kv))

RefFlatten(prefix, v) ==
  CASE IsScalar(v) -> <<[key |-> prefix, val |-> v]>>
    [] v.t = "dict" -> RefMapping(prefix, v.kv)
    [] v.t = "list" ->
         [i \in 1..Len(v.elems) |->
            [key |-> Join(prefix, PyStr(GetKey(v.elems[i], K_id))),
             val |-> JStr(PyStr(GetKey(v.elems[i], K_value)))]]

\* C7: on every well-formed structured value unroll_json yields exactly the
\* reference flattening and raises nothing.
C7_FlattenMatchesReference ==
  (fpc # "input" /\ WellFormed(fJson)) =>
    /\ fResult.err = "none"
    /\ fResult.pairs = RefFlatten(fPrefix, fJson)

C7_Witness ==
  /\ fpc = "unrolled" /\ fPrefix # <<>>
  /\ WellFormed(fJson) /\ fJson.t = "dict" /\ Len(fJson.kv) = 2
  /\ \E i \in 1..2 : fJson.kv[i].v.t = "list"
  /\ \E i \in 1..2 : fJson.kv[i].v.t = "dict"
  /\ Len(fResult.pairs) = 3

\* C8: flattening a sequence one of whose elements is not a mapping with
\* exactly the keys id and value raises, and build_point builds no point.
C8_MalformedSequenceRaises ==
  (fpc # "input" /\ fJson.t = "list"
     /\ \E i \in 1..Len(fJson.elems) : ~WellFormedEntry(fJson.elems[i])) =>
    /\ fResult.err # "none"
    /\ fpc = "built" => ~fPoint.ok

PairwiseDistinctKeys(pairs) ==
  \A i, j \in 1..Len(pairs) : pairs[i].key = pairs[j].key => i = j

\* C9 as stated: the keys of one flattening result are pairwise distinct.
C9_KeysDistinct ==
  fpc # "input" => PairwiseDistinctKeys(fResult.pairs)

\* A key segment that is not empty and holds no separator.
SegmentOk(s) == s # <<>> /\ \A i \in 1..Len(s) : s[i] # "_"

HasId(e) == e.t = "dict" /\ HasKey(e, K_id)

RECURSIVE SepFree(_)
SepFree(v) ==
  CASE v.t = "dict" ->
         \A i \in 1..Len(v.kv) : SegmentOk(v.kv[i].k) /\ SepFree(v.kv[i].v)
    [] v.t = "list" ->
         \A i \in 1..Len(v.elems) :
           HasId(v.elems[i]) =>
             /\ SegmentOk(PyStr(GetKey(v.elems[i], K_id)))
             /\ \A j \in 1..Len(v.elems) :
                  (HasId(v.elems[j])
                     /\ PyStr(GetKey(v.elems[j], K_id))
                        = PyStr(GetKey(v.elems[i], K_id))) => i = j
    [] OTHER -> TRUE

\* C9, amended: the keys of one flattening result are pairwise distinct
\* provided no mapping key and no str(id) of the value is empty or contains
\* the separator "_" and no sequence holds two elements whose ids have the
\* same str().
C9_KeysDistinctWhenSeparatorFree ==
  (fpc # "input" /\ SepFree(fJson)) => PairwiseDistinctKeys(fResult.pairs)

C9_Witness ==
  /\ fpc = "unrolled" /\ SepFree(fJson)
  /\ fJson.t = "dict" /\ Len(fJson.kv) = 2
  /\ \E i \in 1..2 : fJson.kv[i].v.t = "list"
  /\ Len(fResult.pairs) = 3 /\ fResult.err = "none"

----------------------------------------------------------------------------
\* C11: at most one Produce+Emit cycle is in flight: there are never two
\* emit workers at once, a worker only runs while the main coroutine is
\* suspended on it, and no step that takes the next trigger line or makes
\* the next pull from the source happens while a worker is active or, in the
\* trigger loop, while lines of the previous batch are still unflushed.
C11_OneCycleInFlight ==
  /\ [](/\ workers \in {0, 1}
        /\ workers = 1 => (prog = "plugin" /\ pc = "emit"))
  /\ [][(linesRead' # linesRead \/ pulls' # pulls) =>
          /\ workers = 0
          /\ mode = "noninteractive" => flushed = Len(stdout)]_vars

C11_Witness ==
  /\ prog = "plugin" /\ mode = "noninteractive"
  /\ workers = 1 /\ pc = "emit" /\ linesRead = 2 /\ stdin > 0
  /\ emitIdx = 2 /\ Len(stdout) > flushed

\* The items pulled before the last one.
Earlier(items) == SubSeq(items, 1, Len(items) - 1)

\* C12: in the trigger loop every pulled item is emitted as one line per
\* point, in batch order (a single point as a one-element batch), followed
\* by exactly one flush after the last line: between cycles there has been
\* one flush per item and everything is written and flushed; while a batch
\* is being written its flush has not happened yet and the lines written are
\* its first points' lines, in order; a flush step writes no line and is the
\* one flush of its batch; and a trigger line is only read when the batches
\* of all earlier lines have been flushed.
C12_LinePerPointThenFlush ==
  /\ [](mode = "noninteractive" =>
          /\ Quiescent =>
               /\ flushes = Len(pulled)
               /\ stdout = LinesOf(pulled)
               /\ flushed = Len(stdout)
          /\ pc \in {"to_thread", "emit"} =>
               /\ pulled # <<>>
               /\ points = pulled[Len(pulled)].pts
               /\ flushes = Len(pulled) - 1
               /\ flushed = Len(LinesOf(Earlier(pulled)))
               /\ emitIdx \in 1..(Len(points) + 1)
               /\ stdout = LinesOf(Earlier(pulled)) \o
                             [j \in 1..(emitIdx - 1) |-> to_line_protocol(points[j])])
  /\ [][mode = "noninteractive" =>
          /\ flushes' # flushes =>
               /\ flushes' = flushes + 1
               /\ flushes' = Len(pulled')
               /\ stdout' = LinesOf(pulled')
               /\ flushed' = Len(stdout')
          /\ linesRead' # linesRead =>
               /\ flushes = linesRead
               /\ flushed = Len(stdout)]_vars

C12_Witness ==
  /\ prog = "plugin" /\ mode = "noninteractive" /\ pc = "wait"
  /\ Len(pulled) = 2 /\ flushes = 2
  /\ pulled[1].single /\ ~pulled[2].single /\ Len(pulled[2].pts) = 2
  /\ Len(stdout) = 3 /\ flushed = 3 /\ stdin > 0

\* C13: in non-interactive mode, when every pull and every write eventually
\* returns, a trigger line that has been read is eventually followed either
\* by a return to Wait-For-Trigger with one batch emitted and flushed per
\* line read, or by the end of the process; the driver is never left for
\* ever in a state that is neither waiting for a trigger nor terminated.
C13_TriggerServiced ==
  /\ (mode = "noninteractive" /\ pc = "produce")
       ~> \/ /\ pc = "wait" /\ flushes = linesRead
             /\ Len(pulled) = linesRead /\ flushed = Len(stdout)
          \/ pc = "done"
  /\ [](mode = "noninteractive" => <>(pc \in {"wait", "done"}))

C13_Witness ==
  /\ prog = "goodwe" /\ mode = "noninteractive" /\ pc = "wait"
  /\ linesRead = 2 /\ flushes = 2 /\ Len(pulled) = 2 /\ stdin = 1

\* C14: the goodwe adapter initializes once per process: at most one
\* discovery and one connection are ever made; before any read of the
\* device, any pull and any trigger line the connection has been made (and
\* the discovery, exactly when no address was given) and the tags have been
\* collected from that connection; and every point produced during the run
\* carries that same tag set, however many trigger lines are serviced.
C14_InitOnce ==
  prog = "goodwe" =>
    /\ connects <= 1 /\ discoveries <= 1
    /\ (reads > 0 \/ pulls > 0 \/ linesRead > 0 \/ mode # "none") =>
         /\ connects = 1
         /\ discoveries = (IF ipArg = "None" THEN 1 ELSE 0)
         /\ inverter \in Inverters
         /\ tags = CollectTags(inverter, <<KV("ip_address", ipAddress)>>, 1)
    /\ \A k \in 1..Len(pulled) :
         \A j \in 1..Len(pulled[k].pts) : pulled[k].pts[j].tags = tags
    /\ \A k \in 1..Len(stdout) :
         "line" \in DOMAIN stdout[k] => stdout[k].line.tags = tags

C14_Witness ==
  /\ prog = "goodwe" /\ mode = "noninteractive" /\ pc = "wait"
  /\ Len(pulled) = 3 /\ Len(stdout) = 3
  /\ connects = 1 /\ discoveries = 1 /\ Len(tags) > 2

\* C15: every point the azrouter adapter has produced, in interactive and in
\* trigger-driven mode alike, was built from one fetch of the status
\* endpoint and one fetch of the power endpoint made for it: there are at
\* least as many fetches of either endpoint as points, and between cycles
\* the last point is the one built from the merge of the two last responses.
C15_BothEndpoints ==
  (prog = "azrouter" /\ pulled # <<>>) =>
    /\ statusFetches >= Len(pulled)
    /\ powerFetches >= Len(pulled)
    /\ Quiescent =>
         /\ MergeOk(statusJson, powerJson)
         /\ build_point(M_azrouter, <<>>, Merge(statusJson, powerJson)).ok
         /\ pulled[Len(pulled)].pts[1] =
              build_point(M_azrouter, <<>>, Merge(statusJson, powerJson)).point

\* C16: the goodwe adapter reads the inverter's runtime data exactly once
\* per produced point, in the trigger loop and in the interactive sample:
\* whenever the program is between cycles or has ended normally there have
\* been as many reads as points, and what the interactive sample lists as
\* runtime data comes from the snapshot its point was built from.
C16_OneReadPerPoint ==
  (prog = "goodwe" /\ Quiescent) =>
    /\ reads = Len(pulled)
    /\ (mode = "interactive" /\ pulled # <<>>) =>
         \E rd \in DeviceReadings :
           /\ pulled[1].pts[1] = read_point(rd, M_photovoltaic, tags)
           /\ \A k \in 1..Len(SensorLines(rd, 1)) :
                \E i \in 1..Len(stdout) : stdout[i] = SensorLines(rd, 1)[k]

\* C17 as stated: when the adapter's initialization has failed the process
\* has ended with a failure, no trigger line has been read from the input
\* channel and nothing has been written to the output channel.
C17_InitFailureBeforeLoop ==
  srcInit = "failed" =>
    /\ pc = "done" /\ exitCode > 0
    /\ linesRead = 0
    /\ stdout = <<>>

\* C17, amended: an initialization failure ends the process with a non-zero
\* status, with no point produced and nothing written to standard output.
\* In goodwe the initialization precedes the isatty test and the loop, so
\* no trigger line has been read.  A source run by telegraf_plugin_main is
\* initialized by its first pull: in the trigger loop that is after the
\* first trigger line has been read, and exactly one line has been read.
C17_InitFailureIsFatal ==
  /\ srcInit = "failed" =>
       /\ pc = "done" /\ exitCode > 0 /\ Logged("traceback")
       /\ pulled = <<>> /\ stdout = <<>>
       /\ prog = "goodwe" => (mode = "none" /\ linesRead = 0 /\ pulls = 0)
       /\ prog = "plugin" =>
            /\ pulls = 1
            /\ linesRead = (IF mode = "noninteractive" THEN 1 ELSE 0)
  /\ (srcInit = "pending" /\ prog = "plugin") => pulls = 0
  /\ (srcInit = "pending" /\ prog = "goodwe") =>
       (mode = "none" /\ linesRead = 0 /\ reads = 0)

C17_Witness ==
  /\ prog = "plugin" /\ mode = "noninteractive" /\ srcInit = "failed"
  /\ linesRead = 1 /\ stdin > 0 /\ exitCode = 1

\* The rules of C18, written from the claim.
RefSuffix(unit) ==
  IF unit = "%" THEN "_pct"
  ELSE IF unit \in {"1", ""} THEN ""
  ELSE "_" \o unit
RefContributes(rd, i) ==
  /\ rd[Sensors[i].id_].r = "value"
  /\ Sensors[i].id_ \notin {"timestamp"}
RefFieldSet(rd) ==
  { <<Sensors[i].id_ \o RefSuffix(Sensors[i].unit), rd[Sensors[i].id_].n>> :
      i \in {i \in 1..Len(Sensors) : RefContributes(rd, i)} }
FieldSet(pt) == { <<pt.fields[i].key, pt.fields[i].val>> : i \in 1..Len(pt.fields) }
TagSet(pt) == { <<pt.tags[i].k, pt.tags[i].v>> : i \in 1..Len(pt.tags) }
TagKeys(pt) == { pt.tags[i].k : i \in 1..Len(pt.tags) }

\* C18: the last point the goodwe adapter produced has exactly the fields
\* the rules give for the runtime data it was built from (a sensor
\* contributes iff its reading is present and non-null and its id is not
\* timestamp, a reading of 0 included; the key is the id with _pct for %,
\* nothing for 1 or an empty unit, _<unit> otherwise), each field once; its
\* tags hold ip_address with the address in use, and an optional identity
\* attribute is a tag only when the inverter exposes it, with its value.
C18_FieldAndTagRules ==
  (prog = "goodwe" /\ pulled # <<>>) =>
    LET pt == pulled[Len(pulled)].pts[1]
    IN /\ FieldSet(pt) = RefFieldSet(runtimeData)
       /\ Cardinality(FieldSet(pt)) = Len(pt.fields)
       /\ <<"ip_address", ipAddress>> \in TagSet(pt)
       /\ Cardinality(TagKeys(pt)) = Len(pt.tags)
       /\ \A kv \in TagSet(pt) :
            kv[1] # "ip_address" =>
              /\ kv[1] \in {TagAttrs[i] : i \in 1..Len(TagAttrs)}
              /\ inverter[kv[1]] # "None"
              /\ kv[2] = inverter[kv[1]]

C18_Witness ==
  /\ prog = "goodwe" /\ pulled # <<>>
  /\ LET pt == pulled[Len(pulled)].pts[1]
     IN /\ <<"ppv_W", 0>> \in FieldSet(pt)
        /\ <<"meter_power_factor", 7>> \in FieldSet(pt)
        /\ Len(pt.fields) = 2
        /\ "model_name" \in TagKeys(pt) /\ "serial_number" \notin TagKeys(pt)

\* C19: in non-interactive mode the source is never pulled ahead of a
\* trigger: the pulls made are at most the trigger lines read and exceed the
\* completed emits by at most one; before the first line is read no pull
\* has been made and, in telegraf_plugin_main, the source's initialization
\* has not run; and the step that creates the iterator makes no pull and
\* leaves the source, the input and the output untouched.
C19_NoPullAhead ==
  /\ [](mode = "noninteractive" =>
          /\ pulls <= linesRead
          /\ pulls - flushes \in {0, 1}
          /\ linesRead = 0 =>
               /\ pulls = 0 /\ pulled = <<>> /\ srcState = "live"
               /\ prog = "plugin" => srcInit = "pending")
  /\ [][pc = "aiter" =>
          /\ pulls' = pulls /\ pulled' = pulled
          /\ srcState' = srcState /\ srcInit' = srcInit
          /\ linesRead' = linesRead /\ stdout' = stdout]_vars

C19_Witness ==
  /\ prog = "plugin" /\ mode = "noninteractive" /\ pc = "to_thread"
  /\ linesRead = 2 /\ pulls = 2 /\ flushes = 1 /\ stdin > 0

\* C20: once the interactive path has been taken the driver never reads
\* from the input channel and never enters the trigger loop, whatever the
\* first pull of the source does: no trigger line is read, end-of-stream is
\* never looked for, and the position is never one of the trigger loop.
C20_PathsExclusive ==
  mode = "interactive" =>
    /\ linesRead = 0 /\ ~eofSeen
    /\ pc \notin {"aiter", "wait", "produce", "to_thread", "emit", "az_build"}

====
